---------------------------- MODULE Spec2Model ----------------------------
(***************************************************************************)
(* Model of the admin chat context of the support dashboard               *)
(* (AdminChatProvider: bootstrap, conversation selection, loadMessages    *)
(* with retry/backoff, sendMessage with its optimistic placeholder,       *)
(* createConversation, deleteConversation), of the layout's               *)
(* per-conversation filter of the message list, of the chat panel         *)
(* (ChatPanel: input, handleSubmit, typing animation), and of the hooks   *)
(* useDebounce and useThrottle.                                           *)
(*                                                                         *)
(* The browser runs one task at a time; an `await` on a fetch, a timer or *)
(* an animation frame ends the task, so every action below is one task:   *)
(* the code from one such await to the next.  The backend handles a       *)
(* request and its response is delivered in the same step; the gap        *)
(* between a response and its effect on the list is the animation frame.  *)
(***************************************************************************)
EXTENDS Integers, Sequences, FiniteSets, Bags, TLC

(* ------------------------------ bounds -------------------------------- *)

MaxLoads == 3        \* loadMessages calls over a run
MaxSends == 1        \* sendMessage calls over a run, the chat panel's apart
MaxSubmits == 2      \* sendMessage calls made by the chat panel over a run
MaxCreates == 1      \* createConversation calls over a run
MaxDeletes == 2      \* deleteConversation calls over a run
MaxTextLen == 6      \* characters of an agent message that is animated
MaxTime == 900       \* the clock's last value over a run, in ms
TickMs == 150        \* the step of the clock, in ms
MaxCalls == 3        \* runs of a throttled callback over a run

(* ------------------------- program constants -------------------------- *)

Retries == 3         \* loadMessages(conversationId, retries = 3, ...)
Delay   == 300       \* loadMessages(..., delay = 300)
TempId  == -1        \* id: -1, the placeholder's temporary id
NULL    == 0         \* selectedConversationId === null / customerId === null
DebounceDelay == 300 \* useDebounce(value, delay = 300)
ThrottleDelay == 300 \* useThrottle(callback, delay = 300)

(* ------------------------------ backend ------------------------------- *)

ConvIds == {1, 2}                  \* ids of the customer's conversations
BackendConversations == <<1, 2>>   \* GET /conversations/customer/{id}
CustomerIdValue == 7               \* customer.id of the demo customer

(* Texts are sequences of characters. *)
Texts == { <<>>, <<" ">>, <<"h">>, <<" ", "h">> }
FileCounts == {0, 1}               \* files.length
ReplyText == <<"a", " ", "b">>

(* "[Files attached]" *)
FilesAttached ==
  <<"[", "F", "i", "l", "e", "s", " ", "a", "t", "t", "a", "c", "h", "e", "d", "]">>

(* --------------------------- pure functions --------------------------- *)

RECURSIVE TrimStart(_)
TrimStart(t) ==
  IF t = <<>> THEN <<>>
  ELSE IF Head(t) = " " THEN TrimStart(Tail(t)) ELSE t

RECURSIVE TrimEnd(_)
TrimEnd(t) ==
  IF t = <<>> THEN <<>>
  ELSE IF t[Len(t)] = " " THEN TrimEnd(SubSeq(t, 1, Len(t) - 1)) ELSE t

(* String.prototype.trim *)
Trim(t) == TrimEnd(TrimStart(t))

RECURSIVE Pow2(_)
Pow2(n) == IF n = 0 THEN 1 ELSE 2 * Pow2(n - 1)

(* if (!text.trim() && (!files || files.length === 0)) return; *)
SendAcceptsUntrimmed(text, files) == ~(text = <<>> /\ files = 0)

SendAccepts(text, files) == ~(Trim(text) = <<>> /\ files = 0)

(* const displayText = text.trim() || "[Files attached]"; *)
DisplayText(text) == IF Trim(text) # <<>> THEN Trim(text) ELSE FilesAttached

(* body of the POST: FormData "message" = text.trim() || "" with files,   *)
(* JSON { message: text } without                                         *)
Payload(text, files) == IF files > 0 THEN Trim(text) ELSE text

(* prev.filter((m) => m.id !== -1 || m.text !== text.trim())              *)
RemoveOptimistic(prev, text) ==
  SelectSeq(prev, LAMBDA m : m.id # TempId \/ m.text # Trim(text))

(* return [...filtered, ...data.messages]; *)
Reconcile(prev, text, msgs) == RemoveOptimistic(prev, text) \o msgs

(* setMessages(data) *)
ApplyLoadAppend(prev, data) == prev \o data

ApplyLoadKeepPlaceholders(prev, data) ==
  SelectSeq(prev, LAMBDA m : m.id = TempId) \o data

ApplyLoad(prev, data) == data

(* setMessages([]) once every attempt has failed *)
ExhaustListKeep(prev) == prev

ExhaustList(prev) == <<>>

(* attempt < retries - 1 *)
MayRetry(attempt) == attempt < Retries - 1

(* delay * Math.pow(2, attempt) *)
BackoffDelayFlat(attempt) == Delay

BackoffDelay(attempt) == Delay * Pow2(attempt)

(* messages.filter((m) => m.conversation_id === selectedConversationId) *)
Visible(msgs, selected) ==
  SelectSeq(msgs, LAMBDA m : m.conversation_id = selected)

Ids(msgs) == { msgs[i].id : i \in DOMAIN msgs }

Range(seq) == { seq[i] : i \in DOMAIN seq }

Count(msgs, P(_)) == Cardinality({ i \in DOMAIN msgs : P(msgs[i]) })

(* ------------------------------- state -------------------------------- *)

VARIABLES
  bootpc,                  \* position of bootstrap()
  customerId,              \* useState<number | null>(null)
  conversations,           \* ids of the local conversation list, in order
  selectedConversationId,  \* NULL or a conversation id
  showChatPanel,
  messages,                \* the in-memory message list
  isSending,
  loads,                   \* bag of the loadMessages calls awaiting a
                           \* response or a backoff timer
  sends,                   \* the sendMessage calls
  raf,                     \* callbacks waiting for the next animation frame
  backend,                 \* the backend's stored messages per conversation
  nextId,                  \* the backend's next message id
  loadCalls,               \* history: number of loadMessages calls so far
  lastLoad,                \* history: the loadMessages call that wrote the
                           \* list most recently
  prevLoad,                \* history: the one before it
  creates,                 \* bag of the createConversation calls awaiting
                           \* the response of their POST
  deletes,                 \* bag of the deleteConversation calls awaiting
                           \* the response of their DELETE
  nextConvId,              \* the backend's next conversation id
  convCalls,               \* history: number of createConversation and of
                           \* deleteConversation calls so far, and of
                           \* deleteConversation calls whose DELETE failed
  lastDelete,              \* history: the last deleteConversation call that
                           \* succeeded
  panel,                   \* the chat panel (ChatPanel), mounted or not
  hooks                    \* a component using useDebounce and useThrottle,
                           \* and the clock

(* the state of AdminChatProvider the first part of the model is about *)
chatVars == << bootpc, customerId, conversations, selectedConversationId,
               showChatPanel, messages, isSending, loads, sends, raf,
               backend, nextId, loadCalls, lastLoad, prevLoad >>

(* the calls of createConversation and deleteConversation *)
convVars == << creates, deletes, nextConvId, convCalls, lastDelete >>

vars == << chatVars, convVars, panel, hooks >>

(* one record per sendMessage call of a run *)
SendSlots == IF MaxSends > MaxSubmits THEN MaxSends ELSE MaxSubmits
SendIds == 1 .. SendSlots

Msg(id, c, author, text, owner) ==
  [ id |-> id, conversation_id |-> c, author |-> author, text |-> text,
    owner |-> owner ]   \* owner: the send a placeholder belongs to (history)

(* a call loadMessages(c): the first fetch is issued at once; parent is   *)
(* the sendMessage call awaiting it (0: none)                             *)
NewLoad(c, parent) ==
  [ pc |-> "fetch", conv |-> c, attempt |-> 0, requests |-> 1,
    waits |-> <<>>, parent |-> parent, stale |-> FALSE ]

NoLoad ==
  [ conv |-> NULL, outcome |-> "none", settled |-> "pending", logged |-> "",
    requests |-> 0, waits |-> <<>>, deselected |-> FALSE, data |-> <<>>,
    list |-> <<>> ]

IdleSend ==
  [ pc |-> "idle", conv |-> NULL, text |-> <<>>, files |-> 0,
    outcome |-> "none", logged |-> "", idsBefore |-> {},
    solo |-> FALSE, stored |-> <<>>,
    posts |-> 0,          \* history: POST requests issued by the call
    fallback |-> FALSE ]  \* history: the call took the fallback reload

NoDelete == [ conv |-> NULL, wasSelected |-> FALSE, remaining |-> 0 ]

(* ChatPanel is rendered only while showChatPanel holds *)
Unmounted == [ mounted |-> FALSE ]

(* ------------------- useDebounce and useThrottle --------------------- *)

(* the values of the input that is debounced *)
Values == { "a", "b", "c" }

NoTimer == [ value |-> "", due |-> -1 ]
NoUpdate == -1

(* setTimeout(() => setDebouncedValue(value), delay), set at time now     *)
(* after the cleanup has cleared the timeout that was pending             *)
SetTimerKeepDue(timer, v, now) ==
  IF timer = NoTimer THEN [ value |-> v, due |-> now + DebounceDelay ]
  ELSE [ value |-> v, due |-> timer.due ]

SetTimer(timer, v, now) == [ value |-> v, due |-> now + DebounceDelay ]

(* now - lastRun >= delay *)
ThrottleOpen(now, lastRun) == now - lastRun >= ThrottleDelay

(* A component that has just mounted, at time 0, with the input "a":      *)
(* useState(value) and the first run of the effect for useDebounce,       *)
(* useState(Date.now()) for useThrottle.  lastRun is the state the last   *)
(* render has read, update a setLastRun not rendered yet; since, lastCall *)
(* and calls are history: when the input took its value, when the         *)
(* throttled callback ran last and how often it has run.                  *)
HooksMounted ==
  [ now |-> 0,
    value |-> "a", debouncedValue |-> "a",
    timer |-> SetTimer(NoTimer, "a", 0), since |-> 0,
    lastRun |-> 0, update |-> NoUpdate, lastCall |-> NoUpdate, calls |-> 0 ]

(* the component renders with a new input value: the effect's cleanup     *)
(* clears the pending timeout and the effect sets a new one               *)
DebounceInput(v) ==
  /\ v # hooks.value
  /\ hooks.now + DebounceDelay <= MaxTime
  /\ hooks' = [ hooks EXCEPT !.value = v,
                             !.since = hooks.now,
                             !.timer = SetTimer(hooks.timer, v, hooks.now) ]
  /\ UNCHANGED << chatVars, convVars, panel >>

(* the timeout fires: setDebouncedValue(value) with the value of the      *)
(* render that set it; value and delay are unchanged, the effect does not *)
(* run again                                                              *)
DebounceFire ==
  /\ hooks.timer # NoTimer
  /\ hooks.timer.due <= hooks.now
  /\ hooks' = [ hooks EXCEPT !.debouncedValue = hooks.timer.value,
                             !.timer = NoTimer ]
  /\ UNCHANGED << chatVars, convVars, panel >>

(* the function useThrottle returned to the last render is called *)
ThrottleCall ==
  /\ hooks.calls < MaxCalls
  /\ ThrottleOpen(hooks.now, hooks.lastRun)
  /\ hooks' = [ hooks EXCEPT !.calls = @ + 1,
                             !.lastCall = hooks.now,
                             !.update = hooks.now ]
  /\ UNCHANGED << chatVars, convVars, panel >>

(* the component renders after setLastRun(now) *)
ThrottleRender ==
  /\ hooks.update # NoUpdate
  /\ hooks' = [ hooks EXCEPT !.lastRun = hooks.update,
                             !.update = NoUpdate ]
  /\ UNCHANGED << chatVars, convVars, panel >>

(* the clock advances by one step; a timeout that is due fires first *)
Tick ==
  /\ hooks.now + TickMs <= MaxTime
  /\ hooks.timer = NoTimer \/ hooks.timer.due > hooks.now
  /\ hooks' = [ hooks EXCEPT !.now = @ + TickMs ]
  /\ UNCHANGED << chatVars, convVars, panel >>

Init ==
  /\ bootpc = "customers"
  /\ customerId = NULL
  /\ conversations = <<>>
  /\ selectedConversationId = NULL
  /\ showChatPanel = FALSE
  /\ messages = <<>>
  /\ isSending = FALSE
  /\ loads = EmptyBag
  /\ sends = [ s \in SendIds |-> IdleSend ]
  /\ raf = <<>>
  /\ backend = [ c \in ConvIds |-> << Msg(c, c, "agent", ReplyText, 0) >> ]
  /\ nextId = 3
  /\ loadCalls = 0
  /\ lastLoad = NoLoad
  /\ prevLoad = NoLoad
  /\ creates = EmptyBag
  /\ deletes = EmptyBag
  /\ nextConvId = 3
  /\ convCalls = [ creates |-> 0, deletes |-> 0, failed |-> 0 ]
  /\ lastDelete = NoDelete
  /\ panel = Unmounted
  /\ hooks = HooksMounted

(* --------------------------- loadMessages ----------------------------- *)

InFlight == BagToSet(loads)
Pending(kind) == { i \in DOMAIN raf : raf[i].kind = kind }
CallLoad(b, c, parent) == b (+) SetToBag({ NewLoad(c, parent) })
Replace(b, r, q) == (b (-) SetToBag({r})) (+) SetToBag({q})

(* a selection change while a load of another conversation is awaiting a  *)
(* response or a backoff timer (history)                                  *)
Deselect(r, c) == IF r.conv # c THEN [ r EXCEPT !.stale = TRUE ] ELSE r

RECURSIVE MarkStale(_, _)
MarkStale(b, c) ==
  IF b = EmptyBag THEN EmptyBag
  ELSE LET r == CHOOSE x \in BagToSet(b) : TRUE
       IN  MarkStale(b (-) SetToBag({r}), c) (+) SetToBag({ Deselect(r, c) })

(* a send is no longer alone once another call is made (history) *)
NotSolo(ss) == [ s \in SendIds |-> [ ss[s] EXCEPT !.solo = FALSE ] ]

(* the continuation of the sendMessage call that awaits load r, if any:   *)
(* its finally block runs in the same task as the load's return           *)
Resume(ss, r, pc) ==
  IF r.parent = 0 THEN ss
  ELSE [ ss EXCEPT ![r.parent] =
           [ @ EXCEPT !.pc = pc, !.outcome = "ok", !.idsBefore = {},
                      !.solo = (pc # "done" /\ @) ] ]

(* history of a call that has written the list: its outcome, the         *)
(* backend's data for its conversation at its last response, the list it  *)
(* left, and whether its conversation had been deselected while it was    *)
(* awaiting a response or a timer and is not the selected one now         *)
Completed(r, outcome, log, data, list) ==
  [ conv |-> r.conv, outcome |-> outcome, settled |-> "resolved",
    logged |-> log, requests |-> r.requests, waits |-> r.waits,
    deselected |-> (r.stale /\ r.conv # selectedConversationId),
    data |-> data, list |-> list ]

Earlier(done) ==
  [ NoLoad EXCEPT !.conv = done.conv, !.outcome = done.outcome,
                  !.data = done.data, !.list = done.list ]

(* 2xx and a parsed body: requestAnimationFrame(() => setMessages(data)) *)
LoadOk(r) ==
  /\ r.pc = "fetch"
  /\ raf' = Append(raf, [ kind |-> "load", send |-> r.parent,
                          text |-> <<>>, msgs |-> backend[r.conv],
                          call |-> r ])
  /\ loads' = loads (-) SetToBag({r})
  /\ sends' = Resume(sends, r, "raf")
  /\ isSending' = IF r.parent # 0 THEN FALSE ELSE isSending
  /\ UNCHANGED << bootpc, customerId, conversations, selectedConversationId,
                  showChatPanel, messages, backend, nextId, loadCalls, lastLoad,
                  prevLoad >>

(* a failed attempt: back off and retry, or give up with an empty list *)
LoadFailed(r, log) ==
  /\ r.pc = "fetch"
  /\ IF MayRetry(r.attempt)
     THEN /\ loads' = Replace(loads, r,
                        [ r EXCEPT !.pc = "backoff",
                                   !.waits = Append(@, BackoffDelay(r.attempt)) ])
          /\ UNCHANGED << messages, sends, isSending, lastLoad, prevLoad >>
     ELSE /\ messages' = ExhaustList(messages)
          /\ loads' = loads (-) SetToBag({r})
          /\ sends' = Resume(sends, r, "done")
          /\ isSending' = IF r.parent # 0 THEN FALSE ELSE isSending
          /\ lastLoad' = Completed(r, "exhausted", log, backend[r.conv],
                                   messages')
          /\ prevLoad' = Earlier(lastLoad)
  /\ UNCHANGED << bootpc, customerId, conversations, selectedConversationId,
                  showChatPanel, raf, backend, nextId, loadCalls >>

(* if (!res.ok) *)
LoadNotOk(r) == LoadFailed(r, "Failed to load messages")

(* catch (err): fetch rejected or res.json() threw *)
LoadThrow(r) == LoadFailed(r, "Error loading messages")

(* the backoff timer fires: continue with the next attempt *)
LoadBackoffDone(r) ==
  /\ r.pc = "backoff"
  /\ loads' = Replace(loads, r, [ r EXCEPT !.pc = "fetch",
                                           !.attempt = @ + 1,
                                           !.requests = @ + 1 ])
  /\ UNCHANGED << bootpc, customerId, conversations, selectedConversationId,
                  showChatPanel, messages, isSending, sends, raf, backend,
                  nextId, loadCalls, lastLoad, prevLoad >>

(* -------------------------- animation frame --------------------------- *)

ApplyCallback(cb, prev) ==
  IF cb.kind = "load" THEN ApplyLoad(prev, cb.msgs)
  ELSE Reconcile(prev, cb.text, cb.msgs)

(* The callbacks run in the order of their registration.  A frame that    *)
(* runs several of them is as many consecutive steps: registering a       *)
(* callback and running another one commute.                              *)
RafCallback ==
  /\ raf # <<>>
  /\ messages' = ApplyCallback(Head(raf), messages)
  /\ raf' = Tail(raf)
  /\ sends' = IF Head(raf).send = 0 THEN sends
              ELSE [ sends EXCEPT ![Head(raf).send] =
                       [ @ EXCEPT !.pc = "done", !.solo = FALSE ] ]
  /\ IF Head(raf).kind = "load"
     THEN /\ lastLoad' = Completed(Head(raf).call, "ok", "", Head(raf).msgs,
                                   messages')
          /\ prevLoad' = Earlier(lastLoad)
     ELSE UNCHANGED << lastLoad, prevLoad >>
  /\ UNCHANGED << bootpc, customerId, conversations, selectedConversationId,
                  showChatPanel, isSending, loads, backend, nextId,
                  loadCalls >>

(* the list and the history after the callbacks cbs have run in order *)
RECURSIVE FrameState(_, _)
FrameState(cbs, st) ==
  IF cbs = <<>> THEN st
  ELSE LET cb == Head(cbs)
           list == ApplyCallback(cb, st.messages)
       IN  FrameState(Tail(cbs),
             IF cb.kind = "load"
             THEN [ messages |-> list,
                    last |-> Completed(cb.call, "ok", "", cb.msgs, list),
                    prev |-> Earlier(st.last) ]
             ELSE [ st EXCEPT !.messages = list ])

(* An animation frame: the browser runs every callback registered before  *)
(* it, in the order of registration, and React renders once, after the    *)
(* last of them.                                                          *)
AnimationFrame ==
  /\ raf # <<>>
  /\ LET st == FrameState(raf, [ messages |-> messages, last |-> lastLoad,
                                 prev |-> prevLoad ])
     IN  /\ messages' = st.messages
         /\ lastLoad' = st.last
         /\ prevLoad' = st.prev
  /\ raf' = <<>>
  /\ sends' = [ s \in SendIds |->
                  IF \E i \in DOMAIN raf : raf[i].send = s
                  THEN [ sends[s] EXCEPT !.pc = "done", !.solo = FALSE ]
                  ELSE sends[s] ]
  /\ UNCHANGED << bootpc, customerId, conversations, selectedConversationId,
                  showChatPanel, isSending, loads, backend, nextId,
                  loadCalls >>

(* ------------------- bootstrap and selection -------------------------- *)

(* GET /customers/ (and POST when the demo customer is missing) *)
BootCustomer ==
  /\ bootpc = "customers"
  /\ bootpc' = "conversations"
  /\ customerId' = CustomerIdValue
  /\ UNCHANGED << conversations, selectedConversationId, showChatPanel,
                  messages, isSending, loads, sends, raf, backend, nextId,
                  loadCalls, lastLoad, prevLoad >>

(* the conversations arrive: select the first one and load its messages;  *)
(* the selection effect loads them a second time                          *)
BootConversations ==
  /\ bootpc = "conversations"
  /\ bootpc' = "done"
  /\ conversations' = BackendConversations
  /\ IF Len(BackendConversations) > 0
     THEN /\ selectedConversationId' = BackendConversations[1]
          /\ loadCalls + 2 <= MaxLoads
          /\ loads' = CallLoad(CallLoad(MarkStale(loads,
                                                  BackendConversations[1]),
                                        BackendConversations[1], 0),
                               BackendConversations[1], 0)
          /\ loadCalls' = loadCalls + 2
     ELSE UNCHANGED << selectedConversationId, loads, loadCalls >>
  /\ UNCHANGED << customerId, showChatPanel, messages, isSending, sends, raf,
                  backend, nextId, lastLoad, prevLoad >>

(* catch (err) of bootstrap *)
BootFail ==
  /\ bootpc \in {"customers", "conversations"}
  /\ bootpc' = "failed"
  /\ UNCHANGED << customerId, conversations, selectedConversationId,
                  showChatPanel, messages, isSending, loads, sends, raf,
                  backend, nextId, loadCalls, lastLoad, prevLoad >>

(* the effect on selectedConversationId, run when the value has changed *)
SelectionEffect(c, changed) ==
  IF ~changed
  THEN UNCHANGED << loads, loadCalls, sends, messages >>
  ELSE IF c # NULL
  THEN /\ loadCalls < MaxLoads
       /\ loads' = CallLoad(MarkStale(loads, c), c, 0)
       /\ loadCalls' = loadCalls + 1
       /\ sends' = NotSolo(sends)
       /\ UNCHANGED messages
  ELSE /\ loads' = MarkStale(loads, c)
       /\ sends' = NotSolo(sends)
       /\ messages' = <<>>
       /\ UNCHANGED loadCalls

(* a click on a conversation of the dashboard's list *)
SelectConversation(c) ==
  /\ \E i \in DOMAIN conversations : conversations[i] = c
  /\ selectedConversationId' = c
  /\ showChatPanel' = TRUE
  /\ SelectionEffect(c, c # selectedConversationId)
  /\ UNCHANGED << bootpc, customerId, conversations, isSending, raf, backend,
                  nextId, lastLoad, prevLoad >>

(* ---------------------------- sendMessage ----------------------------- *)

IdleSends == { s \in SendIds : sends[s].pc = "idle" }
LowestIdle == CHOOSE s \in IdleSends : \A k \in IdleSends : s <= k

SendInFlight(s) == sends[s].pc \notin {"idle", "done"}

(* nothing else is running that writes the message list *)
Quiet ==
  /\ raf = <<>>
  /\ loads = EmptyBag
  /\ \A s \in SendIds : ~SendInFlight(s)

(* what the backend stores for a POST it accepts: the admin message and   *)
(* the agent's reply                                                      *)
Stored(s) ==
  << Msg(nextId, sends[s].conv, "admin",
         Payload(sends[s].text, sends[s].files), 0),
     Msg(nextId + 1, sends[s].conv, "agent", ReplyText, 0) >>

BackendStores(s) ==
  /\ backend' = [ backend EXCEPT ![sends[s].conv] = @ \o Stored(s) ]
  /\ nextId' = nextId + 2

(* finally { setIsSending(false) } at the end of a failed call *)
SendFailedRetry(s, log) ==
  /\ sends' = [ sends EXCEPT ![s] =
                  [ @ EXCEPT !.pc = "post", !.logged = log,
                             !.posts = @ + 1 ] ]
  /\ isSending' = TRUE

SendFailed(s, log) ==
  /\ sends' = [ sends EXCEPT ![s] =
                  [ @ EXCEPT !.pc = "done", !.outcome = "failed",
                             !.logged = log, !.idsBefore = {},
                             !.solo = FALSE ] ]
  /\ isSending' = FALSE

(* sendMessage(c, text, files): the guard, then optimistic append,         *)
(* setIsSending(true) and the POST.  A call the guard turns away returns   *)
(* at once; its record keeps the arguments (history).                      *)
CallSendMessage(c, text, files) ==
  /\ IdleSends # {}
  /\ IF SendAccepts(text, files)
     THEN /\ messages' = Append(messages,
                                Msg(TempId, c, "admin", DisplayText(text),
                                    LowestIdle))
          /\ isSending' = TRUE
          /\ sends' = [ NotSolo(sends) EXCEPT ![LowestIdle] =
                          [ IdleSend EXCEPT !.pc = "post",
                                            !.conv = c,
                                            !.text = text, !.files = files,
                                            !.idsBefore = Ids(messages),
                                            !.solo = Quiet,
                                            !.posts = 1 ] ]
     ELSE /\ sends' = [ sends EXCEPT ![LowestIdle] =
                          [ IdleSend EXCEPT !.pc = "done",
                                            !.outcome = "rejected",
                                            !.conv = c,
                                            !.text = text, !.files = files ] ]
          /\ UNCHANGED << messages, isSending >>
  /\ UNCHANGED << bootpc, customerId, conversations, selectedConversationId,
                  showChatPanel, loads, raf, backend, nextId, loadCalls, lastLoad,
                  prevLoad >>

(* sendMessage called for the conversation shown in the chat panel *)
SendMessage(text, files) ==
  /\ showChatPanel
  /\ \E i \in DOMAIN conversations :
        conversations[i] = selectedConversationId
  /\ Cardinality(SendIds \ IdleSends) < MaxSends
  /\ CallSendMessage(selectedConversationId, text, files)

(* if (!res.ok): remove the optimistic message, then await res.text() *)
PostNotOk(s) ==
  /\ sends[s].pc = "post"
  /\ messages' = RemoveOptimistic(messages, sends[s].text)
  /\ sends' = [ sends EXCEPT ![s].pc = "errtext" ]
  /\ UNCHANGED << bootpc, customerId, conversations, selectedConversationId,
                  showChatPanel, isSending, loads, raf, backend, nextId,
                  loadCalls, lastLoad, prevLoad >>

(* res.text() resolved: log, return, finally *)
ErrorTextRead(s) ==
  /\ sends[s].pc = "errtext"
  /\ SendFailed(s, "Failed to send chat message")
  /\ UNCHANGED << bootpc, customerId, conversations, selectedConversationId,
                  showChatPanel, messages, loads, raf, backend, nextId,
                  loadCalls, lastLoad, prevLoad >>

(* res.text() rejected: catch removes the optimistic message again *)
ErrorTextThrow(s) ==
  /\ sends[s].pc = "errtext"
  /\ messages' = RemoveOptimistic(messages, sends[s].text)
  /\ SendFailed(s, "Error talking to chat backend")
  /\ UNCHANGED << bootpc, customerId, conversations, selectedConversationId,
                  showChatPanel, loads, raf, backend, nextId, loadCalls, lastLoad,
                  prevLoad >>

(* fetch rejected: catch, finally *)
PostThrow(s) ==
  /\ sends[s].pc = "post"
  /\ messages' = RemoveOptimistic(messages, sends[s].text)
  /\ SendFailed(s, "Error talking to chat backend")
  /\ UNCHANGED << bootpc, customerId, conversations, selectedConversationId,
                  showChatPanel, loads, raf, backend, nextId, loadCalls, lastLoad,
                  prevLoad >>

(* 2xx whose body cannot be parsed: res.json() throws, catch, finally *)
PostOkBadBody(s) ==
  /\ sends[s].pc = "post"
  /\ BackendStores(s)
  /\ messages' = RemoveOptimistic(messages, sends[s].text)
  /\ sends' = [ sends EXCEPT ![s] =
                  [ @ EXCEPT !.pc = "done", !.outcome = "failed",
                             !.logged = "Error parsing chat response",
                             !.idsBefore = {}, !.solo = FALSE ] ]
  /\ isSending' = FALSE
  /\ UNCHANGED << bootpc, customerId, conversations, selectedConversationId,
                  showChatPanel, loads, raf, loadCalls, lastLoad, prevLoad >>

(* 2xx with data.messages non-empty: the reconciliation is scheduled for  *)
(* the next animation frame, finally                                      *)
PostOkMessages(s) ==
  /\ sends[s].pc = "post"
  /\ BackendStores(s)
  /\ raf' = Append(raf, [ kind |-> "send", send |-> s,
                          text |-> sends[s].text, msgs |-> Stored(s),
                          call |-> NewLoad(NULL, 0) ])
  /\ sends' = [ sends EXCEPT ![s].pc = "raf", ![s].outcome = "ok",
                             ![s].stored = Stored(s), ![s].idsBefore = {} ]
  /\ isSending' = FALSE
  /\ UNCHANGED << bootpc, customerId, conversations, selectedConversationId,
                  showChatPanel, messages, loads, loadCalls, lastLoad, prevLoad >>

(* 2xx without messages: await the 100 ms timer of the fallback *)
PostOkNoMessages(s) ==
  /\ sends[s].pc = "post"
  /\ BackendStores(s)
  /\ sends' = [ sends EXCEPT ![s].pc = "delay", ![s].stored = Stored(s),
                             ![s].fallback = TRUE ]
  /\ UNCHANGED << bootpc, customerId, conversations, selectedConversationId,
                  showChatPanel, messages, isSending, loads, raf, loadCalls, lastLoad,
                  prevLoad >>

(* the timer fires: await loadMessages(conversationId) *)
FallbackLoad(s) ==
  /\ sends[s].pc = "delay"
  /\ loadCalls < MaxLoads
  /\ loads' = CallLoad(loads, sends[s].conv, s)
  /\ loadCalls' = loadCalls + 1
  /\ sends' = [ NotSolo(sends) EXCEPT ![s].pc = "load",
                                      ![s].solo = sends[s].solo ]
  /\ UNCHANGED << bootpc, customerId, conversations, selectedConversationId,
                  showChatPanel, messages, isSending, raf, backend, nextId,
                  lastLoad, prevLoad >>

(* ------------------- createConversation ------------------------------- *)

(* the title argument: absent, or a text *)
Titles ==
  { [ given |-> FALSE, text |-> <<>> ] } \cup
  { [ given |-> TRUE, text |-> t ] :
      t \in { <<>>, <<" ">>, <<"t">>, <<" ", "t", " ">> } }

(* "Conversation " *)
ConversationPrefix ==
  <<"C", "o", "n", "v", "e", "r", "s", "a", "t", "i", "o", "n", " ">>

DigitChars == <<"0", "1", "2", "3", "4", "5", "6", "7", "8", "9">>

(* the decimal digits of a number, as the template literal writes it *)
RECURSIVE NumberToString(_)
NumberToString(n) ==
  IF n < 10 THEN << DigitChars[n + 1] >>
  ELSE Append(NumberToString(n \div 10), DigitChars[(n % 10) + 1])

(* title?.trim() || `Conversation ${conversations.length + 1}` *)
CreateTitleUntrimmed(title, n) ==
  IF title.given /\ title.text # <<>> THEN title.text
  ELSE ConversationPrefix \o NumberToString(n + 1)

CreateTitle(title, n) ==
  IF title.given /\ Trim(title.text) # <<>> THEN Trim(title.text)
  ELSE ConversationPrefix \o NumberToString(n + 1)

(* createConversation(title) up to the await of its POST; without a       *)
(* customer it logs and returns null                                      *)
CreateConversation(title) ==
  /\ convCalls.creates < MaxCreates
  /\ convCalls' = [ convCalls EXCEPT !.creates = @ + 1 ]
  /\ creates' = IF customerId = NULL THEN creates
                ELSE creates (+) SetToBag({
                       [ title |-> title, n |-> Len(conversations),
                         sent |-> CreateTitle(title, Len(conversations)) ] })
  /\ UNCHANGED << chatVars, deletes, nextConvId, lastDelete >>

(* if (!res.ok): log, return null *)
CreateNotOk(r) ==
  /\ creates' = creates (-) SetToBag({r})
  /\ UNCHANGED << chatVars, deletes, nextConvId, convCalls, lastDelete >>

(* catch (err): log, return null *)
CreateThrow(r) ==
  /\ creates' = creates (-) SetToBag({r})
  /\ UNCHANGED << chatVars, deletes, nextConvId, convCalls, lastDelete >>

(* 2xx: the new conversation is put first, selected, the panel shown and  *)
(* its messages loaded; the selection effect loads them a second time.    *)
(* These two calls are bounded by MaxCreates.                             *)
CreateOk(r) ==
  /\ creates' = creates (-) SetToBag({r})
  /\ nextConvId' = nextConvId + 1
  /\ backend' = backend @@ (nextConvId :> <<>>)
  /\ conversations' = << nextConvId >> \o conversations
  /\ selectedConversationId' = nextConvId
  /\ showChatPanel' = TRUE
  /\ loads' = CallLoad(CallLoad(MarkStale(loads, nextConvId), nextConvId, 0),
                       nextConvId, 0)
  /\ loadCalls' = loadCalls + 2
  /\ sends' = NotSolo(sends)
  /\ UNCHANGED << bootpc, customerId, messages, isSending, raf, nextId,
                  lastLoad, prevLoad, deletes, convCalls, lastDelete >>

(* ------------------- deleteConversation ------------------------------- *)

Remaining(prev, c) == SelectSeq(prev, LAMBDA x : x # c)

(* the selection deleteConversation sets when the conversation it deleted *)
(* is the one its closure holds as selected                               *)
SelectFirst(updated) == IF Len(updated) > 0 THEN updated[1] ELSE NULL

(* deleteConversation(c), called from the dashboard's list, up to the     *)
(* await of its DELETE; selected is the selectedConversationId of the     *)
(* render the call was made from                                          *)
DeleteConversation(c) ==
  /\ convCalls.deletes < MaxDeletes
  /\ c \in Range(conversations)
  /\ convCalls' = [ convCalls EXCEPT !.deletes = @ + 1 ]
  /\ deletes' = deletes (+) SetToBag({
                  [ conv |-> c, selected |-> selectedConversationId ] })
  /\ UNCHANGED << chatVars, creates, nextConvId, lastDelete >>

(* a non-ok branch that took the conversation out of the list *)
DeleteNotOkRemoves(r) ==
  /\ deletes' = deletes (-) SetToBag({r})
  /\ convCalls' = [ convCalls EXCEPT !.failed = @ + 1 ]
  /\ conversations' = Remaining(conversations, r.conv)
  /\ UNCHANGED << bootpc, customerId, selectedConversationId, showChatPanel,
                  messages, isSending, loads, raf, sends, backend, nextId,
                  loadCalls, lastLoad, prevLoad, creates, nextConvId,
                  lastDelete >>

(* if (!res.ok): log, return; the call resolves *)
DeleteNotOk(r) ==
  /\ deletes' = deletes (-) SetToBag({r})
  /\ convCalls' = [ convCalls EXCEPT !.failed = @ + 1 ]
  /\ UNCHANGED << chatVars, creates, nextConvId, lastDelete >>

(* catch (err): log; the call resolves *)
DeleteThrow(r) ==
  /\ deletes' = deletes (-) SetToBag({r})
  /\ convCalls' = [ convCalls EXCEPT !.failed = @ + 1 ]
  /\ UNCHANGED << chatVars, creates, nextConvId, lastDelete >>

(* 2xx: the conversation leaves the local list; when it is the one the    *)
(* closure holds as selected, another one is selected (or none, and the   *)
(* panel hidden) and the list cleared; then the selection effect          *)
DeleteOk(r) ==
  LET updated == Remaining(conversations, r.conv)
      hit == r.selected = r.conv
      selected == IF hit THEN SelectFirst(updated) ELSE selectedConversationId
      changed == selected # selectedConversationId
  IN  /\ deletes' = deletes (-) SetToBag({r})
      /\ conversations' = updated
      /\ selectedConversationId' = selected
      /\ showChatPanel' = IF hit /\ Len(updated) = 0 THEN FALSE
                          ELSE showChatPanel
      /\ messages' = IF hit \/ (changed /\ selected = NULL) THEN <<>>
                     ELSE messages
      /\ IF changed /\ selected # NULL
         THEN /\ loadCalls < MaxLoads
              /\ loads' = CallLoad(MarkStale(loads, selected), selected, 0)
              /\ loadCalls' = loadCalls + 1
         ELSE /\ loads' = IF changed THEN MarkStale(loads, selected) ELSE loads
              /\ UNCHANGED loadCalls
      /\ sends' = IF changed \/ hit THEN NotSolo(sends) ELSE sends
      /\ lastDelete' = [ conv |-> r.conv,
                         wasSelected |-> (selectedConversationId = r.conv),
                         remaining |-> Len(updated) ]
      /\ UNCHANGED << bootpc, customerId, isSending, raf, backend, nextId,
                      lastLoad, prevLoad, creates, nextConvId, convCalls >>

(* ----------------------------- ChatPanel ------------------------------ *)

(* what the user types into the text area *)
PanelInputs == { <<>>, <<" ">>, <<"h">> }

(* typingMessage === null *)
NoTyping == [ id |-> NULL, fullText |-> <<>>, displayedText |-> <<>> ]

NoSubmit == [ via |-> "none", called |-> FALSE ]

(* the state of a ChatPanel that has just been mounted: useState and      *)
(* useRef initial values; timer is the pending timeout of                 *)
(* typingTimeoutRef, submit the last run of handleSubmit (history)        *)
Mounted ==
  [ mounted |-> TRUE, input |-> <<>>, uploaded |-> 0, typing |-> NoTyping,
    timer |-> "none", processed |-> {}, submit |-> NoSubmit ]

(* remainingText.indexOf(ch), 0-based, -1 when absent *)
RECURSIVE IndexOf(_, _)
IndexOf(t, ch) ==
  IF t = <<>> THEN -1
  ELSE IF Head(t) = ch THEN 0
  ELSE LET k == IndexOf(Tail(t), ch) IN IF k = -1 THEN -1 ELSE k + 1

(* a step that reveals up to the next space however far it is *)
CharsToAddWord(remainingText) ==
  LET nextSpaceIndex == IndexOf(remainingText, " ")
  IN  IF nextSpaceIndex # -1 THEN nextSpaceIndex + 1 ELSE 1

(* how many characters the next reveal step adds *)
CharsToAdd(remainingText) ==
  LET nextSpaceIndex == IndexOf(remainingText, " ")
      nextNewlineIndex == IndexOf(remainingText, "\n")
  IN  IF nextSpaceIndex # -1 /\ nextSpaceIndex < 5 THEN nextSpaceIndex + 1
      ELSE IF nextNewlineIndex # -1 /\ nextNewlineIndex < 3
           THEN nextNewlineIndex + 1
      ELSE 1

(* fullText.slice(0, end) *)
Slice(t, end) == SubSeq(t, 1, IF end < Len(t) THEN end ELSE Len(t))

(* messages.filter(agent).sort((a, b) => b.id - a.id)[0] *)
AgentMessages(msgs) == { m \in Range(msgs) : m.author = "agent" }

LastAgentMessage(msgs) ==
  CHOOSE m \in AgentMessages(msgs) :
    \A o \in AgentMessages(msgs) : o.id <= m.id

(* the text ChatPanel renders for message m *)
RenderTyped(m, typing) ==
  IF typing.id # NULL THEN typing.displayedText ELSE m.text

Render(m, typing) ==
  IF m.author = "agent" /\ typing.id = m.id THEN typing.displayedText
  ELSE m.text

(* the animation effect: it sets the timer of the next reveal step, or of *)
(* the clearing of a finished animation                                   *)
AnimationTimer(typing) ==
  IF typing = NoTyping THEN "none"
  ELSE IF Len(typing.displayedText) < Len(typing.fullText) THEN "reveal"
  ELSE "clear"

(* /[.,!?;:]/ *)
Punctuation == { ".", ",", "!", "?", ";", ":" }

(* the delay, in ms, of the timeout the animation effect sets for typing  *)
TimerDelay(typing) ==
  LET currentLength == Len(typing.displayedText)
  IN  IF currentLength < Len(typing.fullText)
      THEN IF typing.fullText[currentLength + 1] \in Punctuation
           THEN 80 ELSE 25
      ELSE 200

(* a trigger effect that does not look at processedMessageIdsRef *)
TriggerEffectAgain(p, msgs, sending) ==
  IF /\ ~sending
     /\ AgentMessages(msgs) # {}
     /\ p.typing = NoTyping
  THEN LET m == LastAgentMessage(msgs)
           typing == [ id |-> m.id, fullText |-> m.text,
                       displayedText |-> <<>> ]
       IN  [ p EXCEPT !.processed = @ \cup { m.id },
                      !.typing = typing,
                      !.timer = AnimationTimer(typing) ]
  ELSE p

(* the body of the trigger effect, then the animation effect when it has  *)
(* set typingMessage                                                      *)
TriggerEffect(p, msgs, sending) ==
  IF /\ ~sending
     /\ AgentMessages(msgs) # {}
     /\ LastAgentMessage(msgs).id \notin p.processed
     /\ p.typing = NoTyping
  THEN LET m == LastAgentMessage(msgs)
           typing == [ id |-> m.id, fullText |-> m.text,
                       displayedText |-> <<>> ]
       IN  [ p EXCEPT !.processed = @ \cup { m.id },
                      !.typing = typing,
                      !.timer = AnimationTimer(typing) ]
  ELSE p

(* the cleanup of the trigger effect: clearTimeout(typingTimeoutRef.current) *)
ClearTimer(p) == [ p EXCEPT !.timer = "none" ]

(* the provider has rendered in this step: one of its state variables has *)
(* changed or setMessages was given a new array; the layout then filters  *)
(* the list anew                                                          *)
Rerender ==
  \/ << customerId, conversations, selectedConversationId, showChatPanel,
        messages, isSending >>'
       # << customerId, conversations, selectedConversationId, showChatPanel,
            messages, isSending >>
  \/ Len(raf') < Len(raf)
  \/ lastLoad' # lastLoad
  \/ \E s \in SendIds :
        sends[s].pc \in {"post", "errtext"} /\ sends'[s].pc \in {"errtext", "done"}

(* the chat panel after the provider's step: unmounted, mounted (its      *)
(* effects run for the first time) or rendered again with a new messages  *)
(* array, which runs the trigger effect's cleanup and body                *)
CommitPanel(p) ==
  LET msgs == Visible(messages', selectedConversationId')
  IN  IF ~showChatPanel' THEN Unmounted
      ELSE IF ~p.mounted THEN TriggerEffect(Mounted, msgs, isSending')
      ELSE IF Rerender THEN TriggerEffect(ClearTimer(p), msgs, isSending')
      ELSE p

(* onChange of the text area *)
PanelType(t) ==
  /\ panel.mounted
  /\ panel' = [ panel EXCEPT !.input = t ]
  /\ UNCHANGED << chatVars, convVars >>

(* a file is attached *)
AttachFile ==
  /\ panel.mounted
  /\ panel.uploaded = 0
  /\ panel' = [ panel EXCEPT !.uploaded = 1 ]
  /\ UNCHANGED << chatVars, convVars >>

(* conversations.find((c) => c.id === selectedConversationId) ?? null *)
PanelConversation ==
  IF selectedConversationId \in Range(conversations)
  THEN selectedConversationId ELSE NULL

(* if (!text && uploadedFiles.length === 0) return; *)
SubmitAccepts(input, uploaded) == ~(Trim(input) = <<>> /\ uploaded = 0)

(* the text handleSubmit passes to sendMessage; the list of the attached  *)
(* files is one element here                                              *)
MessageText(input, uploaded) ==
  IF uploaded = 0 THEN Trim(input)
  ELSE IF Trim(input) # <<>>
       THEN Trim(input) \o << "\n", "\n", "[File: f (1 KB)]" >>
       ELSE << "Uploaded 1 file(s):", "\n", "[File: f (1 KB)]" >>

(* handleSubmit *)
HandleSubmit(via) ==
  /\ panel.mounted
  /\ LET run == [ via |-> via,
                  called |-> ( PanelConversation # NULL
                               /\ SubmitAccepts(panel.input, panel.uploaded) ) ]
     IN  IF run.called
         THEN /\ CallSendMessage(PanelConversation,
                                 MessageText(panel.input, panel.uploaded), 0)
              /\ panel' = CommitPanel([ panel EXCEPT !.input = <<>>,
                                                     !.uploaded = 0,
                                                     !.submit = run ])
         ELSE /\ panel' = [ panel EXCEPT !.submit = run ]
              /\ UNCHANGED chatVars
  /\ UNCHANGED convVars

(* disabled={(!input.trim() && uploadedFiles.length === 0) || isSending} *)
SubmitDisabled ==
  (Trim(panel.input) = <<>> /\ panel.uploaded = 0) \/ isSending

(* a click on the submit button: the form's onSubmit *)
SubmitButton ==
  /\ panel.mounted
  /\ ~SubmitDisabled
  /\ HandleSubmit("button")

(* Enter without Shift in the text area: onKeyDown *)
SubmitEnter == HandleSubmit("enter")

(* the timeout of typingTimeoutRef fires: the next reveal step, or the    *)
(* clearing of a finished animation; the panel renders and its effects    *)
(* run                                                                    *)
TypingTimer ==
  /\ panel.mounted
  /\ panel.timer # "none"
  /\ LET t == panel.typing
         cur == Len(t.displayedText)
         remainingText == SubSeq(t.fullText, cur + 1, Len(t.fullText))
         revealed == [ t EXCEPT !.displayedText =
                         Slice(t.fullText, cur + CharsToAdd(remainingText)) ]
     IN  panel' =
           IF panel.timer = "reveal"
           THEN [ panel EXCEPT !.typing = revealed,
                               !.timer = AnimationTimer(revealed) ]
           ELSE TriggerEffect([ panel EXCEPT !.typing = NoTyping,
                                             !.timer = "none" ],
                              Visible(messages, selectedConversationId),
                              isSending)
  /\ UNCHANGED << chatVars, convVars >>

(* --------------------------- specification ---------------------------- *)

(* the runs in which no conversation is created or deleted; the chat     *)
(* panel's own state is left out (it writes the provider's state only by  *)
(* calling sendMessage)                                                   *)
Next ==
  /\ UNCHANGED << convVars, panel, hooks >>
  /\ \/ BootCustomer
     \/ BootConversations
     \/ BootFail
     \/ \E c \in ConvIds : SelectConversation(c)
     \/ \E r \in InFlight : LoadOk(r)
     \/ \E r \in InFlight : LoadNotOk(r)
     \/ \E r \in InFlight : LoadThrow(r)
     \/ \E r \in InFlight : LoadBackoffDone(r)
     \/ RafCallback
     \/ \E text \in Texts, files \in FileCounts : SendMessage(text, files)
     \/ \E s \in SendIds : PostNotOk(s)
     \/ \E s \in SendIds : ErrorTextRead(s)
     \/ \E s \in SendIds : ErrorTextThrow(s)
     \/ \E s \in SendIds : PostThrow(s)
     \/ \E s \in SendIds : PostOkBadBody(s)
     \/ \E s \in SendIds : PostOkMessages(s)
     \/ \E s \in SendIds : PostOkNoMessages(s)
     \/ \E s \in SendIds : FallbackLoad(s)

Spec == Init /\ [][Next]_vars

(* the runs in which the chat panel sends nothing: bootstrap, selection   *)
(* and the loads they call                                                *)
NextLoad ==
  /\ UNCHANGED << convVars, panel, hooks >>
  /\ \/ BootCustomer
     \/ BootConversations
     \/ BootFail
     \/ \E c \in ConvIds : SelectConversation(c)
     \/ \E r \in InFlight : LoadOk(r)
     \/ \E r \in InFlight : LoadNotOk(r)
     \/ \E r \in InFlight : LoadThrow(r)
     \/ \E r \in InFlight : LoadBackoffDone(r)
     \/ RafCallback

SpecLoad == Init /\ [][NextLoad]_vars

(* the runs in which conversations are created and deleted, nothing is    *)
(* sent and the backend answers every GET of the messages with a 2xx      *)
NextConv ==
  /\ UNCHANGED hooks
  /\ \/ /\ UNCHANGED << convVars, panel >>
        /\ \/ BootCustomer
           \/ BootConversations
           \/ BootFail
           \/ \E c \in Range(conversations) : SelectConversation(c)
           \/ \E r \in InFlight : LoadOk(r)
           \/ RafCallback
     \/ /\ UNCHANGED panel
        /\ \/ \E title \in Titles : CreateConversation(title)
           \/ \E r \in BagToSet(creates) : CreateNotOk(r)
           \/ \E r \in BagToSet(creates) : CreateThrow(r)
           \/ \E r \in BagToSet(creates) : CreateOk(r)
           \/ \E c \in Range(conversations) : DeleteConversation(c)
           \/ \E r \in BagToSet(deletes) : DeleteNotOk(r)
           \/ \E r \in BagToSet(deletes) : DeleteThrow(r)
           \/ \E r \in BagToSet(deletes) : DeleteOk(r)

SpecConv == Init /\ [][NextConv]_vars

(* the texts sendMessage's guard turns away without a file; the panel is *)
(* the only caller of sendMessage in the repository and never passes one, *)
(* so the runs with the panel call it directly with these only            *)
BlankTexts == { t \in Texts : Trim(t) = <<>> }

(* the runs with the chat panel, opened on the conversation bootstrap has *)
(* selected: the backend answers every GET of the messages with a 2xx and *)
(* a POST with a 2xx carrying the messages, or not at all                 *)
NextPanel ==
  /\ UNCHANGED hooks
  /\ \/ /\ UNCHANGED convVars
        /\ \/ BootCustomer
           \/ BootConversations
           \/ \E c \in {selectedConversationId} \cap ConvIds : SelectConversation(c)
           \/ \E r \in InFlight : LoadOk(r)
           \/ AnimationFrame
           \/ \E text \in BlankTexts : SendMessage(text, 0)
           \/ \E s \in SendIds : PostThrow(s)
           \/ \E s \in SendIds : PostOkMessages(s)
        /\ panel' = CommitPanel(panel)
     \/ \E t \in PanelInputs : PanelType(t)
     \/ AttachFile
     \/ SubmitButton
     \/ SubmitEnter
     \/ TypingTimer

SpecPanel == Init /\ [][NextPanel]_vars

(* the texts of the panel's submissions in the runs with overlapping      *)
(* calls: handleSubmit passes the trimmed input                           *)
OverlapTexts == { <<"h">>, <<"g">> }

(* sendMessage called by the panel's handleSubmit for the conversation it *)
(* shows, whether or not an earlier call is still in flight (the Enter    *)
(* key does not look at isSending)                                        *)
OverlapSend(text) ==
  /\ showChatPanel
  /\ PanelConversation # NULL
  /\ CallSendMessage(PanelConversation, text, 0)

(* the runs of the provider with up to SendSlots calls of sendMessage,    *)
(* overlapping or not, on the conversation bootstrap has selected; every  *)
(* GET of the messages is answered with a 2xx                             *)
NextOverlap ==
  /\ UNCHANGED << convVars, panel, hooks >>
  /\ \/ BootCustomer
     \/ BootConversations
     \/ \E c \in {selectedConversationId} \cap ConvIds : SelectConversation(c)
     \/ \E r \in InFlight : LoadOk(r)
     \/ RafCallback
     \/ \E text \in OverlapTexts : OverlapSend(text)
     \/ \E s \in SendIds : PostNotOk(s)
     \/ \E s \in SendIds : ErrorTextRead(s)
     \/ \E s \in SendIds : PostThrow(s)
     \/ \E s \in SendIds : PostOkMessages(s)
     \/ \E s \in SendIds : PostOkNoMessages(s)
     \/ \E s \in SendIds : FallbackLoad(s)

SpecOverlap == Init /\ [][NextOverlap]_vars

(* the runs of a component that uses the two hooks *)
NextHooks ==
  \/ \E v \in Values : DebounceInput(v)
  \/ DebounceFire
  \/ ThrottleCall
  \/ ThrottleRender
  \/ Tick

SpecHooks == Init /\ [][NextHooks]_vars

(* the clock advances and due timeouts fire *)
SpecHooksFair == SpecHooks /\ WF_vars(Tick) /\ WF_vars(DebounceFire)

(* The characters and the texts of the agent message the backend holds   *)
(* for each conversation in the runs that look at the animation's steps.  *)
TypingChars == { "a", " ", ".", "\n" }

RECURSIVE TextsOfLen(_)
TextsOfLen(n) ==
  IF n = 0 THEN { <<>> }
  ELSE { Append(t, ch) : t \in TextsOfLen(n - 1), ch \in TypingChars }

TypingTexts == UNION { TextsOfLen(n) : n \in 0 .. MaxTextLen }

InitTyping ==
  /\ bootpc = "customers"
  /\ customerId = NULL
  /\ conversations = <<>>
  /\ selectedConversationId = NULL
  /\ showChatPanel = FALSE
  /\ messages = <<>>
  /\ isSending = FALSE
  /\ loads = EmptyBag
  /\ sends = [ s \in SendIds |-> IdleSend ]
  /\ raf = <<>>
  /\ \E t \in TypingTexts :
        backend = [ c \in ConvIds |-> << Msg(c, c, "agent", t, 0) >> ]
  /\ nextId = 3
  /\ loadCalls = 0
  /\ lastLoad = NoLoad
  /\ prevLoad = NoLoad
  /\ creates = EmptyBag
  /\ deletes = EmptyBag
  /\ nextConvId = 3
  /\ convCalls = [ creates |-> 0, deletes |-> 0, failed |-> 0 ]
  /\ lastDelete = NoDelete
  /\ panel = Unmounted
  /\ hooks = HooksMounted

(* the runs of the panel's animation over the loaded messages: nothing is *)
(* sent, created or deleted                                               *)
NextTyping ==
  /\ UNCHANGED hooks
  /\ \/ /\ UNCHANGED convVars
        /\ \/ BootCustomer
           \/ BootConversations
           \/ \E c \in {selectedConversationId} \cap ConvIds : SelectConversation(c)
           \/ \E r \in InFlight : LoadOk(r)
           \/ AnimationFrame
        /\ panel' = CommitPanel(panel)
     \/ TypingTimer

SpecTyping == InitTyping /\ [][NextTyping]_vars

(* the same runs when a pending timeout of the panel fires *)
SpecPanelFair == SpecPanel /\ WF_vars(TypingTimer /\ UNCHANGED hooks)

(* ------------------------------ claims -------------------------------- *)

Quiescent == loads = EmptyBag /\ raf = <<>>

Placeholders(msgs) == Count(msgs, LAMBDA m : m.id = TempId)

OwnPlaceholders(msgs, s) ==
  Count(msgs, LAMBDA m : m.id = TempId /\ m.owner = s)

WithoutOwn(msgs, s) ==
  SelectSeq(msgs, LAMBDA m : ~(m.id = TempId /\ m.owner = s))

(* the step in which the call s and the update of the list it has         *)
(* scheduled are over                                                     *)
SendEnds(s, outcome) ==
  /\ sends[s].pc # "done"
  /\ sends'[s].pc = "done"
  /\ sends'[s].outcome = outcome

(* C1: when a sendMessage call whose POST returned 2xx is over (its       *)
(* scheduled update of the list included), the list holds exactly one     *)
(* entry for the admin message of that send and no placeholder of it.     *)
(* Stated for the calls during which nothing else wrote the list.         *)
C1_OneEntryPerSend ==
  [][ \A s \in SendIds :
        (SendEnds(s, "ok") /\ sends[s].solo) =>
          /\ OwnPlaceholders(messages', s) = 0
          /\ Count(messages', LAMBDA m : m.id = sends[s].stored[1].id) = 1
    ]_vars

(* C2: when a sendMessage call that failed is over, the ids in the list   *)
(* are the ids that were in it before the call.  Stated for the calls     *)
(* during which nothing else wrote the list.                              *)
C2_FailedSendRestoresIds ==
  [][ \A s \in SendIds :
        (SendEnds(s, "failed") /\ sends[s].solo) =>
          Ids(messages') = sends[s].idsBefore
    ]_vars

(* C3: the list never holds more id -1 entries than there are sendMessage *)
(* calls in flight (a call whose update of the list is still scheduled    *)
(* counts as in flight).                                                  *)
C3_PlaceholdersBounded ==
  Placeholders(messages) <= Cardinality({ s \in SendIds : SendInFlight(s) })

(* C4: a load whose conversation was deselected while it was awaiting a   *)
(* response or a backoff timer never writes the list.                     *)
C4_StaleLoadDiscarded == ~lastLoad.deselected

(* C5: once every load has resolved after a switch to B made while a load *)
(* of A was pending, the visible list is the backend's list of B.  Stated *)
(* for the runs where the load of B got its 2xx and A's result came last. *)
C5_VisibleIsSelected ==
  ( /\ Quiescent
    /\ lastLoad.deselected
    /\ prevLoad.outcome = "ok"
    /\ prevLoad.conv = selectedConversationId )
  => Visible(messages, selectedConversationId)
       = backend[selectedConversationId]

(* C6: every entry of the message list belongs to the selected            *)
(* conversation, and the list is empty when none is selected.             *)
C6_ListOfSelectedOnly ==
  /\ \A i \in DOMAIN messages :
        messages[i].conversation_id = selectedConversationId
  /\ selectedConversationId = NULL => messages = <<>>

(* C7: a loadMessages call whose every attempt failed leaves the list     *)
(* empty and its promise resolved.                                        *)
C7_ExhaustedLoadEmptiesList ==
  lastLoad.outcome = "exhausted" =>
    /\ lastLoad.list = <<>>
    /\ lastLoad.settled = "resolved"
    /\ lastLoad.requests = 3

C7_Witness ==
  /\ lastLoad.outcome = "exhausted"
  /\ prevLoad.outcome = "ok"
  /\ prevLoad.list # <<>>
  /\ messages = <<>>

(* C8: a loadMessages call issues at most 3 GETs, each one after the      *)
(* first preceded by one wait, of 300 ms then 600 ms; a 2xx ends it and   *)
(* the third failure ends it without a further wait.                      *)
Schedule(r) ==
  /\ r.requests <= 3
  /\ Len(r.waits) <= 2
  /\ r.waits = SubSeq(<<300, 600>>, 1, Len(r.waits))

C8_RetrySchedule ==
  /\ \A r \in InFlight :
        /\ Schedule(r)
        /\ r.requests = r.attempt + 1
        /\ Len(r.waits) = IF r.pc = "backoff" THEN r.requests
                          ELSE r.requests - 1
  /\ \A i \in Pending("load") :
        /\ Schedule(raf[i].call)
        /\ Len(raf[i].call.waits) = raf[i].call.requests - 1
  /\ lastLoad.outcome # "none" =>
        /\ Schedule(lastLoad)
        /\ Len(lastLoad.waits) = lastLoad.requests - 1
        /\ lastLoad.outcome = "exhausted" => lastLoad.requests = 3

C8_Witness ==
  /\ lastLoad.outcome = "exhausted"
  /\ lastLoad.requests = 3
  /\ lastLoad.waits = <<300, 600>>
  /\ prevLoad.outcome = "ok"

(* C9, as amended: two loadMessages calls for one conversation that write *)
(* the list one after the other, against the same backend data and with   *)
(* the same outcome, leave the same list.                                 *)
C9_IdempotentSameOutcome ==
  ( /\ lastLoad.outcome # "none"
    /\ prevLoad.outcome = lastLoad.outcome
    /\ prevLoad.conv = lastLoad.conv
    /\ prevLoad.data = lastLoad.data )
  => /\ lastLoad.list = prevLoad.list
     /\ lastLoad.outcome = "ok" => lastLoad.list = lastLoad.data

C9_Witness ==
  /\ lastLoad.outcome = "ok"
  /\ prevLoad.outcome = "ok"
  /\ prevLoad.conv = lastLoad.conv
  /\ prevLoad.data = lastLoad.data
  /\ lastLoad.data # <<>>
  /\ messages = lastLoad.data

(* C9, as claimed: two loadMessages calls for one conversation, one after *)
(* the other against the same backend data, leave the same list.          *)
C9_Idempotent ==
  ( /\ lastLoad.outcome # "none"
    /\ prevLoad.outcome # "none"
    /\ prevLoad.conv = lastLoad.conv
    /\ prevLoad.data = lastLoad.data )
  => lastLoad.list = prevLoad.list

(* C10: the reconciliation of a send whose response carries messages      *)
(* leaves the previous list without this send's placeholder, followed by  *)
(* the response's messages.                                               *)
C10_ReconcileReplacesPlaceholder ==
  [][ ( /\ raf # <<>>
        /\ raf' = Tail(raf)
        /\ Head(raf).kind = "send" )
      => messages' = WithoutOwn(messages, Head(raf).send) \o Head(raf).msgs
    ]_vars


(* C11: a sendMessage call whose POST returned 2xx without messages calls *)
(* loadMessages for the conversation it sent to, after the POST (the       *)
(* backend has stored the message by then); when that load gets its 2xx    *)
(* and writes the list, the list is the data the backend returned for that *)
(* conversation: it holds what the POST stored and no placeholder.         *)
C11_FallbackReload ==
  [][ /\ \A s \in SendIds :
           sends'[s].pc = "load" =>
             /\ sends'[s].posts = 1
             /\ sends'[s].stored # <<>>
             /\ \E r \in BagToSet(loads') :
                   r.parent = s /\ r.conv = sends'[s].conv
      /\ ( /\ raf # <<>>
           /\ raf' = Tail(raf)
           /\ Head(raf).kind = "load"
           /\ Head(raf).send # 0 )
         => LET s == Head(raf).send
            IN  /\ sends[s].fallback
                /\ messages' = Head(raf).msgs
                /\ Placeholders(messages') = 0
                /\ Range(sends[s].stored) \subseteq Range(messages')
                /\ \A m \in Range(messages') :
                      m.conversation_id = sends[s].conv
    ]_vars

C11_Witness ==
  \E s \in SendIds :
    /\ sends[s].pc = "done"
    /\ sends[s].fallback
    /\ sends[s].files = 1
    /\ Trim(sends[s].text) = <<>>
    /\ lastLoad.outcome = "ok"
    /\ lastLoad.conv = sends[s].conv
    /\ messages = backend[sends[s].conv]
    /\ Range(sends[s].stored) \subseteq Range(messages)

(* C12: every sendMessage call that passes the guard issues exactly one   *)
(* POST, whatever its outcome, and the backend stores at most one exchange *)
(* per call; a call the guard turns away issues none.                      *)
C12_OnePostPerSend ==
  /\ \A s \in SendIds :
        sends[s].posts = IF sends[s].pc = "idle" \/ sends[s].outcome = "rejected"
                         THEN 0 ELSE 1
  /\ \A c \in DOMAIN backend :
        Len(backend[c]) <=
          1 + 2 * Cardinality({ s \in SendIds :
                                  sends[s].conv = c /\ sends[s].posts = 1 })

C12_Witness ==
  \E s \in SendIds :
    /\ sends[s].pc = "done"
    /\ sends[s].outcome = "failed"
    /\ sends[s].logged = "Failed to send chat message"
    /\ sends[s].posts = 1
    /\ ~isSending

(* the step in which the DELETE of call r has returned 2xx *)
DeleteSucceeds(r) ==
  /\ deletes' = deletes (-) SetToBag({r})
  /\ lastDelete' # lastDelete \/ conversations' # conversations
  /\ conversations' = Remaining(conversations, r.conv)
  /\ lastDelete'.conv = r.conv

(* C14: when deleteConversation succeeds for the conversation that is     *)
(* selected and another conversation remains, the first conversation of   *)
(* the remaining list becomes the selected one and the message list is    *)
(* emptied in the same step, before any load of the replacement writes.   *)
C14_DeleteSelectsFirstRemaining ==
  [][ \A r \in BagToSet(deletes) :
        ( /\ DeleteSucceeds(r)
          /\ selectedConversationId = r.conv
          /\ Len(conversations') > 0 )
        => /\ selectedConversationId' = conversations'[1]
           /\ messages' = <<>>
           /\ \E l \in BagToSet(loads') : l.conv = conversations'[1]
    ]_vars

(* C15: after deleteConversation has succeeded for the selected           *)
(* conversation and left the local list empty, nothing is selected, the   *)
(* chat panel is hidden and, once every load has resolved, the message    *)
(* list is empty.                                                         *)
C15_DeleteLastClearsSelection ==
  ( /\ lastDelete.wasSelected
    /\ lastDelete.remaining = 0
    /\ conversations = <<>> )
  => /\ selectedConversationId = NULL
     /\ ~showChatPanel
     /\ Quiescent => messages = <<>>

(* C16: a createConversation call sends the title "Conversation {n+1}",  *)
(* n the length of the local list at the call, when the supplied title is *)
(* absent or empty after trimming, and the supplied title trimmed          *)
(* otherwise.                                                              *)
C16_CreateTitle ==
  [][ \A r \in BagToSet(creates') \ BagToSet(creates) :
        LET usable == r.title.given /\ TrimEnd(TrimStart(r.title.text)) # <<>>
        IN  /\ r.n = Len(conversations)
            /\ usable => r.sent = TrimEnd(TrimStart(r.title.text))
            /\ ~usable =>
                  r.sent = <<"C", "o", "n", "v", "e", "r", "s", "a", "t", "i",
                             "o", "n", " ">>
                           \o << DigitChars[Len(conversations) + 2] >>
    ]_vars

C16_Witness ==
  /\ conversations = <<1, 2>>
  /\ \E r \in BagToSet(creates) :
        /\ r.title = [ given |-> TRUE, text |-> <<" ">> ]
        /\ r.sent = ConversationPrefix \o <<"3">>

(* C17: once createConversation has succeeded and every load has          *)
(* resolved, with the new conversation still the selected one, the        *)
(* conversation is in the local list, the chat panel is shown and the     *)
(* message list is the backend's (empty) list of the new conversation.    *)
C17_CreateSelectsAndLoads ==
  ( /\ selectedConversationId \notin ConvIds \cup {NULL}
    /\ selectedConversationId \in Range(conversations)
    /\ Quiescent )
  => /\ showChatPanel
     /\ Head(conversations) = selectedConversationId
     /\ messages = backend[selectedConversationId]

(* C13: a sendMessage call with text empty after trimming and no file     *)
(* issues no request and leaves the message list and isSending as they    *)
(* were; a run of the chat panel's handleSubmit with trimmed input empty  *)
(* and no file attached changes nothing and calls nothing.                *)
C13_EmptySendDoesNothing ==
  [][ /\ \A s \in SendIds :
           ( /\ sends[s].pc = "idle"
             /\ sends'[s].pc # "idle"
             /\ TrimEnd(TrimStart(sends'[s].text)) = <<>>
             /\ sends'[s].files = 0 )
           => /\ sends'[s].posts = 0
              /\ sends'[s].pc = "done"
              /\ messages' = messages
              /\ isSending' = isSending
              /\ UNCHANGED << backend, loads, raf >>
      /\ ( /\ panel.mounted
           /\ panel'.mounted
           /\ panel'.submit # panel.submit
           /\ TrimEnd(TrimStart(panel.input)) = <<>>
           /\ panel.uploaded = 0 )
         => /\ ~panel'.submit.called
            /\ panel'.input = panel.input
            /\ UNCHANGED chatVars
    ]_vars

C13_Witness ==
  /\ \E s \in SendIds :
        /\ sends[s].outcome = "rejected"
        /\ sends[s].text = <<" ">>
        /\ sends[s].posts = 0
  /\ panel.mounted
  /\ panel.input = <<" ">>
  /\ panel.uploaded = 0
  /\ panel.submit = [ via |-> "enter", called |-> FALSE ]

(* the step in which the typing timer fires: a reveal step or the         *)
(* clearing of a finished animation                                       *)
TimerFires ==
  /\ panel.mounted
  /\ panel'.mounted
  /\ panel.timer # "none"
  /\ panel'.typing # panel.typing

(* the step in which an animation starts *)
AnimationStarts ==
  /\ panel'.mounted
  /\ panel'.typing # NoTyping
  /\ ~panel.mounted \/ panel'.typing.id # panel.typing.id

(* C18: a step of the typing timer leaves the provider's state, the       *)
(* message list included, as it was; an animation starts for a message    *)
(* that is in the list with the text it will reveal; and the panel        *)
(* renders every message but the animated one with its own text, the      *)
(* animated one with a prefix of its text.                                *)
C18_TypingLeavesListAlone ==
  [][ /\ TimerFires => UNCHANGED << chatVars, convVars >>
      /\ AnimationStarts =>
           \E m \in Range(messages') :
             /\ m.id = panel'.typing.id
             /\ m.author = "agent"
             /\ m.text = panel'.typing.fullText
             /\ m.conversation_id = selectedConversationId'
      /\ panel'.mounted =>
           \A m \in Range(Visible(messages', selectedConversationId')) :
             /\ m.id # panel'.typing.id =>
                   Render(m, panel'.typing) = m.text
             /\ \E k \in 0 .. Len(m.text) :
                   Render(m, panel'.typing) = SubSeq(m.text, 1, k)
    ]_vars

C18_Witness ==
  /\ panel.mounted
  /\ panel.typing.id # NULL
  /\ panel.typing.displayedText = <<"a", " ">>
  /\ panel.timer = "reveal"
  /\ Len(Visible(messages, selectedConversationId)) >= 3
  /\ \E m \in Range(messages) :
        m.id = panel.typing.id /\ m.text = <<"a", " ", "b">>

(* C19: when an agent message newer than the one being animated comes    *)
(* into the panel's list while the animation is in progress (its timer    *)
(* pending), the panel abandons that animation and starts the newer       *)
(* message's own.                                                         *)
C19_NewerMessageSupersedes ==
  [][ ( /\ panel.mounted
        /\ panel'.mounted
        /\ panel.typing # NoTyping
        /\ panel.timer # "none"
        /\ ~isSending'
        /\ \E m \in AgentMessages(Visible(messages', selectedConversationId')) :
              /\ m.id > panel.typing.id
              /\ m \notin Range(messages) )
      => /\ panel'.typing.id
              = LastAgentMessage(Visible(messages',
                                         selectedConversationId')).id
         /\ panel'.typing.displayedText = <<>>
         /\ panel'.timer = "reveal"
    ]_vars

(* C20: the chat panel calls sendMessage only while isSending is false,   *)
(* from the submit button as from the Enter key.                          *)
C20_NoOverlappingSubmit ==
  [][ ( /\ panel.mounted
        /\ panel'.submit # panel.submit
        /\ panel'.submit.called )
      => ~isSending
    ]_vars

(* a sendMessage call between its optimistic append and the end of its    *)
(* finally block                                                          *)
InCall(s) == sends[s].pc \in {"post", "errtext", "delay", "load"}

(* C21: isSending is true exactly when at least one sendMessage call is   *)
(* between its optimistic append and the end of its finally block, two    *)
(* overlapping calls included.                                            *)
C21_IsSendingIffInFlight ==
  isSending <=> \E s \in SendIds : InCall(s)

(* C22: the selected conversation is none or one of the local list, also  *)
(* when the selection changes while a DELETE is awaited.                  *)
C22_SelectionInList ==
  selectedConversationId = NULL
    \/ selectedConversationId \in Range(conversations)

(* C23: a successful deleteConversation of a conversation that is not the *)
(* selected one when its response is applied takes that conversation, and *)
(* only it, out of the local list and leaves the selection, the chat      *)
(* panel's visibility and the message list as they were.                  *)
C23_DeleteOtherLeavesRest ==
  [][ \A r \in BagToSet(deletes) :
        ( /\ DeleteSucceeds(r)
          /\ selectedConversationId # r.conv )
        => /\ conversations' = Remaining(conversations, r.conv)
           /\ selectedConversationId' = selectedConversationId
           /\ showChatPanel' = showChatPanel
           /\ messages' = messages
    ]_vars

(* C24: when the DELETE of a deleteConversation call returns a non-2xx    *)
(* status or throws, the call ends (it resolves, nothing is thrown to the *)
(* caller) and the conversation list, the selection, the chat panel's     *)
(* visibility and the message list are as they were.                      *)
C24_DeleteFailureChangesNothing ==
  [][ convCalls'.failed # convCalls.failed
      => /\ \E r \in BagToSet(deletes) : deletes' = deletes (-) SetToBag({r})
         /\ UNCHANGED << conversations, selectedConversationId,
                         showChatPanel, messages >>
    ]_vars

C24_Witness ==
  /\ convCalls.failed = 1
  /\ convCalls.deletes = 1
  /\ deletes = EmptyBag
  /\ conversations = <<1, 2>>
  /\ selectedConversationId = 1
  /\ messages # <<>>

(* typingMessage !== null in a mounted panel *)
Animating == panel.mounted /\ panel.typing # NoTyping

(* C25: when pending timers fire, every typing animation that has started *)
(* comes to its end, the typing state null again, also when the message   *)
(* list or isSending changes while it runs.                               *)
C25_AnimationFinishes == Animating ~> ~Animating

(* C26: the displayed text of a running animation is a prefix of the      *)
(* animated message's full text; a reveal step lengthens it by 1 to 5     *)
(* characters and not past the full length; the step is scheduled 80 ms   *)
(* ahead when the next character is one of . , ! ? ; : and 25 ms ahead    *)
(* otherwise.                                                             *)
C26_RevealSteps ==
  [][ /\ Animating' =>
           LET t == panel'.typing
               k == Len(t.displayedText)
           IN  /\ k <= Len(t.fullText)
               /\ t.displayedText = SubSeq(t.fullText, 1, k)
               /\ \A m \in Range(messages') :
                     m.id = t.id => m.text = t.fullText
               /\ panel'.timer = "reveal" =>
                     TimerDelay(t) =
                       IF t.fullText[k + 1] \in {".", ",", "!", "?", ";", ":"}
                       THEN 80 ELSE 25
      /\ ( TimerFires /\ panel.timer = "reveal" ) =>
           LET added == Len(panel'.typing.displayedText)
                          - Len(panel.typing.displayedText)
           IN  /\ panel'.typing.id = panel.typing.id
               /\ added >= 1
               /\ added <= 5
               /\ Len(panel'.typing.displayedText)
                     <= Len(panel.typing.fullText)
    ]_vars

C26_Witness ==
  /\ panel.mounted
  /\ panel.typing.fullText = <<"a", "a", "a", "a", " ", ".">>
  /\ panel.typing.displayedText = <<"a", "a", "a", "a", " ">>
  /\ panel.timer = "reveal"
  /\ TimerDelay(panel.typing) = 80

(* the step in which setTypingMessage is given a message to animate *)
AnimationBegins ==
  /\ panel'.mounted
  /\ panel'.typing # NoTyping
  /\ \/ ~panel.mounted
     \/ panel.typing = NoTyping
     \/ panel'.typing.id # panel.typing.id
     \/ Len(panel'.typing.displayedText) < Len(panel.typing.displayedText)

(* C27: a typing animation starts only when isSending is false and no     *)
(* animation is in progress (none, or the finished one is being cleared   *)
(* in that step), only for the agent message with the largest id of the   *)
(* panel's list, and for a message id the panel has not animated before.  *)
C27_AnimationStartsOnce ==
  [][ /\ AnimationBegins =>
           LET msgs == Visible(messages', selectedConversationId')
           IN  /\ ~isSending'
               /\ panel.mounted =>
                     \/ panel.typing = NoTyping
                     \/ /\ panel.timer = "clear"
                        /\ panel.typing.displayedText = panel.typing.fullText
               /\ \E m \in AgentMessages(msgs) :
                     /\ m.id = panel'.typing.id
                     /\ \A o \in AgentMessages(msgs) : o.id <= m.id
               /\ panel.mounted => panel'.typing.id \notin panel.processed
               /\ panel'.typing.displayedText = <<>>
      /\ ( panel.mounted /\ panel'.mounted ) =>
           panel.processed \subseteq panel'.processed
      /\ Animating' => panel'.typing.id \in panel'.processed
    ]_vars

C27_Witness ==
  /\ panel.mounted
  /\ panel.processed = {1, 4}
  /\ panel.typing.id = 4
  /\ panel.timer = "reveal"
  /\ ~isSending

(* C28: while two sendMessage calls with different texts are in flight    *)
(* for one conversation, a step of one of them (its failure, the frame    *)
(* that reconciles its response, the frame that writes its fallback       *)
(* reload) leaves the other call's placeholder in the list.               *)
C28_OnlyOwnPlaceholderRemoved ==
  [][ \A s, o \in SendIds :
        ( /\ s # o
          /\ sends[s].pc \notin {"idle", "done"}
          /\ sends'[s].pc # sends[s].pc
          /\ sends[o].pc = "post"
          /\ sends'[o].pc = "post"
          /\ sends[s].conv = sends[o].conv
          /\ TrimEnd(TrimStart(sends[s].text))
               # TrimEnd(TrimStart(sends[o].text)) )
        => OwnPlaceholders(messages', o) = OwnPlaceholders(messages, o)
    ]_vars

(* C29: between any two runs of the callback given to useThrottle at      *)
(* least delay ms elapse, also for calls that follow each other before    *)
(* the component has rendered again.                                      *)
C29_ThrottleSpacing ==
  [][ ( hooks'.calls # hooks.calls /\ hooks.calls > 0 )
      => hooks'.lastCall - hooks.lastCall >= ThrottleDelay
    ]_vars

(* C30: the debounced value changes only to the current input value and   *)
(* only when that value has been the input, unchanged, for delay ms; and  *)
(* once the input stops changing the debounced value ends up equal to it. *)
C30_Debounce ==
  /\ [][ hooks'.debouncedValue # hooks.debouncedValue
         => /\ hooks'.debouncedValue = hooks.value
            /\ hooks.now - hooks.since >= DebounceDelay
       ]_vars
  /\ <>[](hooks.debouncedValue = hooks.value)

C30_Witness ==
  /\ hooks.value = "c"
  /\ hooks.debouncedValue = "c"
  /\ hooks.timer = NoTimer
  /\ hooks.since = 450
  /\ hooks.now = 750

=============================================================================
